---- MODULE Spec2Model ----
(***************************************************************************)
(* State-machine model of emta.core.agent.TradingAgent and of the domain   *)
(* records of emta.models.trading it builds.  One action per public method *)
(* of the agent; the collaborators' answers (auth client, API client) are  *)
(* inputs drawn from small sets.                                           *)
(***************************************************************************)
EXTENDS Integers, Sequences, FiniteSets, TLC

VARIABLES username, password, is_logged_in, account_info,
          auth_validate_key, api_validate_key, last

vars == <<username, password, is_logged_in, account_info,
          auth_validate_key, api_validate_key, last>>

\* ------------------------------------------------------------ bounds
\* Longest "Data" collection of an asset/position response.
MaxData == 2
\* Longest account list the model lets login build up (login only appends).
MaxAccounts == 2
\* Longest "Data" collection of a submit_trade_v2 / get_orders_data response.
MaxLegs == 2

\* ------------------------------------------------------------ Python values
\* Python's None.
NoneV == "<None>"

\* Truthiness of an Optional[str]: None and "" are falsy.
Truthy(x) == x # NoneV /\ x # ""

\* Python's `a or b` on Optional[str].
PyOr(a, b) == IF Truthy(a) THEN a ELSE b

\* Wire values carry their Python type: str, int, float, Decimal.
StrV(s) == [t |-> "str", s |-> s]
IntV(n) == [t |-> "int", n |-> n]
\* A float, held as a whole number of hundredths.
FloatV(h) == [t |-> "float", h |-> h]
\* A Decimal keeps its exponent: coefficient * 10^exp.
DecV(c, e) == [t |-> "Decimal", c |-> c, e |-> e]

\* Values handed back to the caller carry their type too.
PyNone == [t |-> "NoneType"]
PyBool(b) == [t |-> "bool", b |-> b]
PyList(items) == [t |-> "list", items |-> items]

IsStr(v) == v.t = "str"

\* dict.get(key, default)
Get(d, k, default) == IF k \in DOMAIN d THEN d[k] ELSE default

\* Outcome of an expression that may raise.
Ok(v) == [ok |-> TRUE, val |-> v]
Raise(e) == [ok |-> FALSE, exc |-> e]

\* float(s) on the strings the model sends over the wire.
ParseFloat(s) ==
  CASE s = "1.5"    -> Ok(FloatV(150))
    [] s = "2"      -> Ok(FloatV(200))
    [] s = "12.340" -> Ok(FloatV(1234))
    [] s = "100"    -> Ok(FloatV(10000))
    [] OTHER        -> Raise("ValueError")

\* Decimal(s)
ParseDecimal(s) ==
  CASE s = "1.5"    -> Ok(DecV(15, -1))
    [] s = "2"      -> Ok(DecV(2, 0))
    [] s = "12.340" -> Ok(DecV(12340, -3))
    [] s = "100"    -> Ok(DecV(100, 0))
    [] OTHER        -> Raise("InvalidOperation")

\* int(s)
ParseInt(s) ==
  CASE s = "2"      -> Ok(IntV(2))
    [] s = "100"    -> Ok(IntV(100))
    [] OTHER        -> Raise("ValueError")

\* ------------------------------------------------------------ AccountOverview
NumericFields ==
  {"Djzj", "Dryk", "Kqzj", "Kyzj", "Ljyk", "RMBZzc", "Zjye", "Zxsz", "Zzc"}

\* login's helper: a missing key or an empty string gives the default.
safe_get_numeric(data, key, default) ==
  LET value == Get(data, key, default)
  IN  IF value = StrV("") THEN default ELSE value

\* AccountOverview.__post_init__ on one numeric field: only a str is converted.
CoerceFloat(value) ==
  IF IsStr(value) THEN ParseFloat(value.s) ELSE Ok(value)

\* AccountOverview(...) as login calls it on one raw "Data" entry.
AccountOverview(data) ==
  IF \E k \in NumericFields : ~CoerceFloat(safe_get_numeric(data, k, IntV(0))).ok
    THEN Raise("ValueError")
    ELSE Ok([k \in NumericFields |->
               CoerceFloat(safe_get_numeric(data, k, IntV(0))).val]
            @@ [Money_type |-> Get(data, "Money_type", StrV(""))])

\* ------------------------------------------------------------ Position
DecimalFields ==
  {"Cbjg", "Cbjgex", "Ckcb", "Ckcbj", "Ckyk", "Cwbl", "Dqcb", "Dryk",
   "Drykbl", "Ljyk", "Ykbl", "Zxjg", "Zxsz", "zxsznew"}

IntFields ==
  {"Djsl", "Gfmcdj", "Gfmrjd", "Gfssmmce", "Gfye", "Ksssl", "Kysl", "Mrssc",
   "Sssl", "Szjsbs", "Zqsl", "Ztmc", "Ztmr"}

StrFields ==
  {"Bz", "Gddm", "Jgbm", "Khdm", "Market", "Zjzh", "Zqdm", "Zqlx", "Zqlxmc",
   "Zqmc", "zqzwqc"}

PositionFields == DecimalFields \cup IntFields \cup StrFields

\* Position.__post_init__ on one field.
CoercePositionField(k, value) ==
  IF k \in DecimalFields /\ IsStr(value) THEN ParseDecimal(value.s)
  ELSE IF k \in IntFields /\ IsStr(value) THEN ParseInt(value.s)
  ELSE Ok(value)

\* Position(**pos_data): every field is required and no other is accepted.
Position(pos_data) ==
  IF DOMAIN pos_data # PositionFields THEN Raise("TypeError")
  ELSE IF \E k \in DecimalFields : ~CoercePositionField(k, pos_data[k]).ok
    THEN Raise("InvalidOperation")
  ELSE IF \E k \in IntFields : ~CoercePositionField(k, pos_data[k]).ok
    THEN Raise("ValueError")
  ELSE Ok([k \in PositionFields |-> CoercePositionField(k, pos_data[k]).val])

\* A slip in add_position: the new position goes to the front.
add_position_front(portfolio, position) ==
  [positions |-> <<position>> \o portfolio.positions]

\* Portfolio.add_position
add_position(portfolio, position) ==
  [positions |-> Append(portfolio.positions, position)]

\* Portfolio()
EmptyPortfolio == [positions |-> <<>>]

\* The inner loop of login over one entry's "positions": the portfolio built,
\* or the exception of the first position that cannot be built.
RECURSIVE BuildPortfolio(_, _)
BuildPortfolio(portfolio, positions) ==
  IF positions = <<>> THEN Ok(portfolio)
  ELSE LET p == Position(Head(positions))
       IN  IF ~p.ok THEN p
           ELSE BuildPortfolio(add_position(portfolio, p.val), Tail(positions))

\* ------------------------------------------------------------ wire entries
\* A raw position mapping with every field of Position.
PosRaw(zqdm, dec, int) ==
  [k \in PositionFields |->
     IF k \in DecimalFields THEN dec
     ELSE IF k \in IntFields THEN int
     ELSE IF k = "Zqdm" THEN StrV(zqdm) ELSE StrV("x")]

PosA == PosRaw("600000", StrV("12.340"), StrV("100"))
PosB == PosRaw("000001", DecV(15, -1), IntV(2))
\* A position lacking a required field.
PosMissing == [k \in PositionFields \ {"zxsznew"} |-> PosA[k]]

\* Entries of the "Data" collection of an asset/position response.
AcctStr == [k \in NumericFields |-> StrV("1.5")]
           @@ [Money_type |-> StrV("RMB"), positions |-> <<PosA, PosB>>]
\* Zjye empty, Zzc a raw int, Kyzj a raw float, the rest and the positions
\* missing.
AcctSparse == [Zjye |-> StrV(""), Zzc |-> IntV(2), Kyzj |-> FloatV(150)]
AcctBadNum == [Zjye |-> StrV("abc"), Money_type |-> StrV("RMB")]
AcctBadPos == [Zjye |-> StrV("2"), positions |-> <<PosA, PosMissing>>]

WellFormedAccounts == {AcctStr, AcctSparse}
RawAccounts == WellFormedAccounts \cup {AcctBadNum, AcctBadPos}

\* The body of login's loop over "Data" up to the AccountInfo literal: the
\* AccountOverview and the Portfolio of each entry the service can send, or the
\* exception building them raises.
EntryParts ==
  [data \in RawAccounts |->
     LET account == AccountOverview(data)
         portfolio == BuildPortfolio(EmptyPortfolio, Get(data, "positions", <<>>))
     IN  IF ~account.ok THEN account
         ELSE IF ~portfolio.ok THEN portfolio
         ELSE Ok([account_overview |-> account.val, portfolio |-> portfolio.val])]

\* One iteration of login's loop over "Data": the AccountInfo of one entry.
BuildAccountInfo(login_username, data) ==
  LET parts == EntryParts[data]
  IN  IF ~parts.ok THEN parts
      ELSE Ok([username |-> login_username,
               account_overview |-> parts.val.account_overview,
               portfolio |-> parts.val.portfolio])

\* login's loop over "Data": appends one AccountInfo per entry to the list and
\* stops at the first entry that raises, keeping what was appended before it.
RECURSIVE AppendAccounts(_, _, _)
AppendAccounts(accounts, login_username, entries) ==
  IF entries = <<>> THEN [ok |-> TRUE, accounts |-> accounts]
  ELSE LET info == BuildAccountInfo(login_username, Head(entries))
       IN  IF ~info.ok THEN [ok |-> FALSE, accounts |-> accounts]
           ELSE AppendAccounts(Append(accounts, info.val), login_username,
                               Tail(entries))

\* ------------------------------------------------------------ inputs
\* Credentials a caller passes (None when omitted) or the constructor stores.
UsernameArgs == {NoneV, "", "alice", "bob"}
PasswordArgs == {NoneV, "", "pw"}

\* Validation tokens the auth service issues.
Keys == {"k1"}

\* Sequences over S of length at most n.
SeqUpTo(S, n) == UNION {[1..m -> S] : m \in 0..n}

\* What query_asset_and_position_v1 can do: raise, or answer a mapping with or
\* without a "Data" collection.
Raised == [kind |-> "raise"]
Resp(body) == [kind |-> "resp", body |-> body]
NotCalled == [kind |-> "none"]

AssetOutcomes ==
  {Raised, Resp([Status |-> 0])}
  \cup {Resp([Status |-> 0, Data |-> d]) : d \in SeqUpTo(RawAccounts, MaxData)}

\* The agent is synchronous (one caller, one call at a time): `last` is the
\* transcript of the call that has just returned, until the caller takes the
\* result; from then on it only tells whether that call was logout.
Idle == last.op = "idle"

\* What the caller gets back: a value, or an exception.
Return(v) == [kind |-> "return", val |-> v]
Throw(e) == [kind |-> "raise", exc |-> e]

\* One call made on a collaborator.
Call(f, a) == [f |-> f, a |-> a]

\* ------------------------------------------------------------ AuthClient
\* AuthClient.login: reports success and then exposes a token, or reports
\* failure, or raises; `key` is the client's validate_key after the call. What
\* a failed call leaves there is not fixed: the old token, none, or a new one.
AuthLoginOutcomes(current) ==
  {[kind |-> "ok", key |-> k] : k \in Keys}
  \cup {[kind |-> k, key |-> v] :
          k \in {"fail", "raise"}, v \in {current, NoneV} \cup Keys}

\* AuthClient.logout invalidates the token.
AuthLogout(current) == NoneV

\* ------------------------------------------------------------ TradingAgent.login
\* A slip in the credential check: the password is not looked at.
LoginPre_username_only(login_username, login_password) ==
  Truthy(login_username)

\* The credential check of login.
LoginPre(login_username, login_password) ==
  Truthy(login_username) /\ Truthy(login_password)

\* The session flag when the auth client reports failure: login's else branch
\* only logs.
LoginFailedFlag(logged) == logged

\* The session flag set by login's exception handler.
LoginExceptFlag(logged) == FALSE

\* The account list after the `if "Data" in asset_pos` block.
LoginSnapshot(accounts, login_username, asset_pos) ==
  IF "Data" \in DOMAIN asset_pos
    THEN AppendAccounts(accounts, login_username, asset_pos["Data"])
    ELSE [ok |-> TRUE, accounts |-> accounts]

\* A slip in login: the resolved password is not kept.
StoredCredentials_password_kept(login_username, login_password) ==
  [username |-> login_username, password |-> password]

\* The credentials login keeps as defaults once the check has passed.
StoredCredentials(login_username, login_password) ==
  [username |-> login_username, password |-> login_password]

\* login(u, p): the agent's fields, the return value and the collaborator
\* calls, given what the auth client and the asset query answer.
LoginOutcome(u, p, auth, asset) ==
  LET login_username == PyOr(u, username)
      login_password == PyOr(p, password)
      same == [username |-> username, password |-> password,
               is_logged_in |-> is_logged_in, account_info |-> account_info,
               auth_key |-> auth_validate_key, api_key |-> api_validate_key,
               ret |-> Return(PyBool(FALSE)), calls |-> <<>>,
               auth |-> "none", asset |-> NotCalled]
      kept == StoredCredentials(login_username, login_password)
      stored == [same EXCEPT !.username = kept.username,
                             !.password = kept.password,
                             !.auth_key = auth.key,
                             !.auth = auth.kind,
                             !.calls = <<Call("auth.login",
                                         <<login_username, login_password>>)>>]
      entered == [stored EXCEPT !.api_key = auth.key,
                                !.asset = asset,
                                !.calls = Append(stored.calls,
                                   Call("query_asset_and_position_v1", <<>>))]
  IN  IF ~LoginPre(login_username, login_password) THEN same
      ELSE IF auth.kind = "raise"
        THEN [stored EXCEPT !.is_logged_in = LoginExceptFlag(is_logged_in)]
      ELSE IF auth.kind = "fail"
        THEN [stored EXCEPT !.is_logged_in = LoginFailedFlag(is_logged_in)]
      ELSE IF asset.kind = "raise"
        THEN [entered EXCEPT !.is_logged_in = LoginExceptFlag(TRUE)]
      ELSE LET snap == LoginSnapshot(account_info, login_username, asset.body)
           IN  IF snap.ok
                 THEN [entered EXCEPT !.is_logged_in = TRUE,
                                      !.account_info = snap.accounts,
                                      !.ret = Return(PyBool(TRUE))]
                 ELSE [entered EXCEPT !.is_logged_in = LoginExceptFlag(TRUE),
                                      !.account_info = snap.accounts]

\* The agent after login(u, p) with the given collaborator answers.
LoginStep(u, p, auth, asset) ==
  \E r \in {LoginOutcome(u, p, auth, asset)} :
    /\ Len(r.account_info) <= MaxAccounts
    /\ username' = r.username
    /\ password' = r.password
    /\ is_logged_in' = r.is_logged_in
    /\ account_info' = r.account_info
    /\ auth_validate_key' = r.auth_key
    /\ api_validate_key' = r.api_key
    /\ last' = [op |-> "login", args |-> <<u, p>>, ret |-> r.ret,
                calls |-> r.calls, auth |-> r.auth, asset |-> r.asset]

AuthFailed(current) == {a \in AuthLoginOutcomes(current) : a.kind # "ok"}
AuthSucceeded(current) == {a \in AuthLoginOutcomes(current) : a.kind = "ok"}

Login ==
  \E u \in UsernameArgs, p \in PasswordArgs :
    /\ Idle
    /\ \/ /\ ~LoginPre(PyOr(u, username), PyOr(p, password))
          /\ LoginStep(u, p, [kind |-> "none", key |-> auth_validate_key],
                       NotCalled)
       \/ /\ LoginPre(PyOr(u, username), PyOr(p, password))
          /\ \E auth \in AuthFailed(auth_validate_key) :
               LoginStep(u, p, auth, NotCalled)
       \/ /\ LoginPre(PyOr(u, username), PyOr(p, password))
          /\ \E auth \in AuthSucceeded(auth_validate_key),
                asset \in AssetOutcomes :
               LoginStep(u, p, auth, asset)

\* ------------------------------------------------------------ TradingAgent.logout
\* A slip in logout: the account list is kept.
LogoutAccounts_kept(accounts) == accounts

\* The account list logout leaves.
LogoutAccounts(accounts) == <<>>

\* A slip in logout: it forgets the stored credentials too.
Logout_forgets_credentials ==
  /\ Idle
  /\ is_logged_in' = FALSE
  /\ account_info' = LogoutAccounts(account_info)
  /\ auth_validate_key' = AuthLogout(auth_validate_key)
  /\ username' = NoneV
  /\ password' = NoneV
  /\ last' = [op |-> "logout", args |-> <<>>, ret |-> Return(PyNone),
              calls |-> <<Call("auth.logout", <<>>)>>,
              repeated |-> last.after_logout]
  /\ UNCHANGED api_validate_key

\* `repeated` tells that the call before this one was logout too.
Logout ==
  /\ Idle
  /\ is_logged_in' = FALSE
  /\ account_info' = LogoutAccounts(account_info)
  /\ auth_validate_key' = AuthLogout(auth_validate_key)
  /\ last' = [op |-> "logout", args |-> <<>>, ret |-> Return(PyNone),
              calls |-> <<Call("auth.logout", <<>>)>>,
              repeated |-> last.after_logout]
  /\ UNCHANGED <<username, password, api_validate_key>>

\* ------------------------------------------------------------ trading inputs
StockCodes == {"600000", "000001"}
\* (stock_code, trade_type, amount, price) of the place_order calls made; the
\* trade types are OrderType.BUY.value and OrderType.SELL.value.
PlaceOrderArgs == {<<"600000", "B", "100", "10.5">>, <<"000001", "S", "100", "10.5">>}

\* emta.utils.stocks.get_market_code: the venue of a stock code.
get_market_code(stock_code) ==
  CASE stock_code = "600000" -> "HA"
    [] OTHER -> "SA"

\* Calendar dates datetime.now() can fall on.
Date(y, m, d) == [y |-> y, m |-> m, d |-> d]
Dates == {Date(2024, 5, 20), Date(2024, 5, 21)}

\* The days of a date, for comparing dates of one era.
DateOrdinal(date) == date.y * 372 + date.m * 31 + date.d

\* A number in two digits, as %m and %d print it.
Pad2(n) == IF n < 10 THEN "0" \o ToString(n) ELSE ToString(n)

\* datetime.strftime('%Y%m%d'), for years of four digits.
strftime_Ymd(date) == ToString(date.y) \o Pad2(date.m) \o Pad2(date.d)

\* Entries of the "Data" collection of a submit_trade_v2 response.
Legs == {[Wtbh |-> "130662"], [Wtbh |-> "77"], [Wtrq |-> "20240520"]}

\* What submit_trade_v2 can do.
SubmitOutcomes ==
  {Raised,
   Resp([Status |-> -1, Message |-> "insufficient funds"]),
   Resp([Status |-> -1, Message |-> "market closed"]),
   Resp([Status |-> -1]),
   Resp([Message |-> "insufficient funds"]),
   Resp([Status |-> 0])}
  \cup {Resp([Status |-> 0, Data |-> d]) : d \in SeqUpTo(Legs, MaxLegs)}

\* Non-decreasing sequences of n dates: what successive datetime.now() calls see.
Clock(n) ==
  {c \in [1..n -> Dates] : \A i \in 1..n, j \in 1..n : i < j =>
       DateOrdinal(c[i]) <= DateOrdinal(c[j])}

\* Entries of the "Data" collection of a get_orders_data response.
OrdFull == [Zqdm |-> "600000", Zqmc |-> "PF Bank", Mmsm |-> "buy", Wtsl |-> "100",
            Wtjg |-> "10.5", Wtzt |-> "filled", Cjsl |-> "100", Cjje |-> "1050",
            Wtrq |-> "20240520", Wtbh |-> "77"]
OrdSparse == [Zqdm |-> "000001", Wtbh |-> "78"]
RawOrders == {OrdFull, OrdSparse}

\* What get_orders_data can do.
OrdersOutcomes ==
  {Raised, Resp([Status |-> 0])}
  \cup {Resp([Status |-> 0, Data |-> d]) : d \in SeqUpTo(RawOrders, MaxLegs)}

\* Order ids a caller asks to cancel.
OrderIds == {"20240520_77", "20240520_130662"}

\* What revoke_orders can do: raise, or answer a payload.
RevokeOutcomes ==
  {Raised, Resp([Status |-> 0]), Resp([Status |-> -1, Message |-> "revoke failed"])}

\* The key of the last price in a stock_bid_ask_em response (the source's
\* key is the two-character Chinese word for "latest").
LastPriceKey == "latest"

\* What stock_bid_ask_em can do.
QuoteOutcomes ==
  {Raised, Resp([symbol |-> StrV("600000")])}
  \cup {Resp([latest |-> v]) :
          v \in {StrV("12.340"), StrV("-"), StrV(""), FloatV(150), IntV(2),
                 PyNone}}

\* ------------------------------------------------------------ place_order
\* PlaceOrderResult(order_ids, success, error_message)
PlaceOrderResult(order_ids, success, error_message) ==
  [t |-> "PlaceOrderResult", order_ids |-> order_ids, success |-> success,
   error_message |-> error_message]

\* A slip in the failure result: no message among the order ids.
FailureResult_no_ids(err_msg) == PlaceOrderResult(<<>>, FALSE, err_msg)

\* The result place_order makes of a response with a non-zero Status.
FailureResult(err_msg) == PlaceOrderResult(<<err_msg>>, FALSE, err_msg)

\* A slip in the session check: only the token is looked at.
PlaceOrderPre_token_only(logged, validate_key) == Truthy(validate_key)

\* The session check of place_order and query_orders.
PlaceOrderPre(logged, validate_key) == logged /\ Truthy(validate_key)

\* A slip in the order id: the ticket number first.
PlacedOrderId_swapped(date, wtbh) == wtbh \o "_" \o strftime_Ymd(date)

\* The id place_order makes of one entry on the given date.
PlacedOrderId(date, wtbh) == strftime_Ymd(date) \o "_" \o wtbh

\* place_order's loop over resp["Data"]: the ids, or KeyError at the first
\* entry without "Wtbh".
RECURSIVE PlacedIds(_, _, _)
PlacedIds(ret, legs, clock) ==
  IF legs = <<>> THEN Ok(ret)
  ELSE IF "Wtbh" \notin DOMAIN Head(legs) THEN Raise("KeyError")
  ELSE PlacedIds(Append(ret, PlacedOrderId(Head(clock), Head(legs)["Wtbh"])),
                 Tail(legs), Tail(clock))

\* What place_order gives its caller once the order was submitted.
PlaceOrderResponse(submit, clock) ==
  IF submit.kind = "raise" THEN Throw("Exception")
  ELSE LET resp == submit.body
       IN  IF "Status" \notin DOMAIN resp THEN Throw("KeyError")
           ELSE IF resp["Status"] # 0
             THEN IF "Message" \notin DOMAIN resp THEN Throw("KeyError")
                  ELSE Return(FailureResult(resp["Message"]))
           ELSE IF "Data" \notin DOMAIN resp THEN Throw("KeyError")
           ELSE LET ids == PlacedIds(<<>>, resp["Data"], clock)
                IN  IF ~ids.ok THEN Throw(ids.exc)
                    ELSE Return(PlaceOrderResult(ids.val, TRUE, NoneV))

\* The dates place_order reads while handling the submit outcome.
SubmitClocks(submit) ==
  IF submit.kind = "resp" /\ "Data" \in DOMAIN submit.body
    THEN Clock(Len(submit.body["Data"]))
    ELSE {<<>>}

PlaceOrder ==
  \E a \in PlaceOrderArgs :
    /\ Idle
    /\ \/ /\ ~PlaceOrderPre(is_logged_in, auth_validate_key)
          /\ last' = [op |-> "place_order", args |-> a, ret |-> Return(PyNone),
                      calls |-> <<>>, resp |-> NotCalled, clock |-> <<>>]
       \/ /\ PlaceOrderPre(is_logged_in, auth_validate_key)
          /\ \E submit \in SubmitOutcomes :
             \E clock \in SubmitClocks(submit) :
               last' = [op |-> "place_order", args |-> a,
                        ret |-> PlaceOrderResponse(submit, clock),
                        calls |-> <<Call("submit_trade_v2",
                                     <<a[1], a[2], get_market_code(a[1]), a[4], a[3]>>)>>,
                        resp |-> submit, clock |-> clock]
    /\ UNCHANGED <<username, password, is_logged_in, account_info,
                   auth_validate_key, api_validate_key>>

\* ------------------------------------------------------------ query_orders
\* A slip in OrderRecord.from_dict: the id made of the ticket number alone.
OrderRecord_from_dict_no_date(data) ==
  [Zqdm |-> Get(data, "Zqdm", ""),
   Zqmc |-> Get(data, "Zqmc", ""),
   Mmsm |-> Get(data, "Mmsm", ""),
   Wtsl |-> Get(data, "Wtsl", ""),
   Wtjg |-> Get(data, "Wtjg", ""),
   Wtzt |-> Get(data, "Wtzt", ""),
   Cjsl |-> Get(data, "Cjsl", ""),
   Cjje |-> Get(data, "Cjje", ""),
   order_id |-> Get(data, "Wtbh", "")]

\* OrderRecord.from_dict
OrderRecord_from_dict(data) ==
  [Zqdm |-> Get(data, "Zqdm", ""),
   Zqmc |-> Get(data, "Zqmc", ""),
   Mmsm |-> Get(data, "Mmsm", ""),
   Wtsl |-> Get(data, "Wtsl", ""),
   Wtjg |-> Get(data, "Wtjg", ""),
   Wtzt |-> Get(data, "Wtzt", ""),
   Cjsl |-> Get(data, "Cjsl", ""),
   Cjje |-> Get(data, "Cjje", ""),
   order_id |-> Get(data, "Wtrq", "") \o "_" \o Get(data, "Wtbh", "")]

\* What query_orders gives its caller once the orders were fetched.
QueryOrdersResponse(fetched) ==
  IF fetched.kind = "raise" THEN Throw("Exception")
  ELSE IF "Data" \in DOMAIN fetched.body
    THEN Return(PyList([i \in 1..Len(fetched.body["Data"]) |->
                          OrderRecord_from_dict(fetched.body["Data"][i])]))
    ELSE Return(PyList(<<>>))

\* A slip in query_orders: it copies the auth client's token to the API
\* client on its way.
QueryOrders_refreshes_token ==
  /\ Idle
  /\ \/ /\ ~PlaceOrderPre(is_logged_in, auth_validate_key)
        /\ last' = [op |-> "query_orders", args |-> <<>>,
                    ret |-> Return(PyList(<<>>)),
                    calls |-> <<>>, resp |-> NotCalled]
     \/ /\ PlaceOrderPre(is_logged_in, auth_validate_key)
        /\ \E fetched \in OrdersOutcomes :
             last' = [op |-> "query_orders", args |-> <<>>,
                      ret |-> QueryOrdersResponse(fetched),
                      calls |-> <<Call("get_orders_data", <<>>)>>,
                      resp |-> fetched]
  /\ api_validate_key' = auth_validate_key
  /\ UNCHANGED <<username, password, is_logged_in, account_info,
                 auth_validate_key>>

QueryOrders ==
  /\ Idle
  /\ \/ /\ ~PlaceOrderPre(is_logged_in, auth_validate_key)
        /\ last' = [op |-> "query_orders", args |-> <<>>,
                    ret |-> Return(PyList(<<>>)),
                    calls |-> <<>>, resp |-> NotCalled]
     \/ /\ PlaceOrderPre(is_logged_in, auth_validate_key)
        /\ \E fetched \in OrdersOutcomes :
             last' = [op |-> "query_orders", args |-> <<>>,
                      ret |-> QueryOrdersResponse(fetched),
                      calls |-> <<Call("get_orders_data", <<>>)>>,
                      resp |-> fetched]
  /\ UNCHANGED <<username, password, is_logged_in, account_info,
                 auth_validate_key, api_validate_key>>

\* ------------------------------------------------------------ cancel_order
\* A slip in the session check of cancel_order: no check at all.
CancelOrderPre_none(logged) == TRUE

\* The session check of cancel_order.
CancelOrderPre(logged) == logged

\* A slip in cancel_order: the payload's Status decides the verdict.
CancelOrderResponse_by_status(revoked) ==
  IF revoked.kind = "raise" THEN Throw("Exception")
  ELSE Return(PyBool(revoked.body["Status"] = 0))

\* What cancel_order gives its caller once the revoke call was made.
CancelOrderResponse(revoked) ==
  IF revoked.kind = "raise" THEN Throw("Exception") ELSE Return(PyBool(TRUE))

CancelOrder ==
  \E order_id \in OrderIds :
    /\ Idle
    /\ \/ /\ ~CancelOrderPre(is_logged_in)
          /\ last' = [op |-> "cancel_order", args |-> <<order_id>>,
                      ret |-> Return(PyBool(FALSE)), calls |-> <<>>,
                      resp |-> NotCalled]
       \/ /\ CancelOrderPre(is_logged_in)
          /\ \E revoked \in RevokeOutcomes :
               last' = [op |-> "cancel_order", args |-> <<order_id>>,
                        ret |-> CancelOrderResponse(revoked),
                        calls |-> <<Call("revoke_orders", <<order_id>>)>>,
                        resp |-> revoked]
    /\ UNCHANGED <<username, password, is_logged_in, account_info,
                   auth_validate_key, api_validate_key>>

\* ------------------------------------------------------------ get_market_data
\* float(x) on a wire value.
PyFloat(v) ==
  CASE v.t = "str"   -> ParseFloat(v.s)
    [] v.t = "float" -> Ok(v)
    [] v.t = "int"   -> Ok(FloatV(v.n * 100))
    [] OTHER         -> Raise("TypeError")

\* A slip in get_market_data: zero for a price that does not parse.
MarketDataResponse_zero(quote) ==
  IF quote.kind = "raise" THEN Throw("Exception")
  ELSE IF LastPriceKey \in DOMAIN quote.body
    THEN LET price == PyFloat(quote.body[LastPriceKey])
         IN  IF price.ok THEN Return(price.val) ELSE Return(FloatV(0))
    ELSE Return(PyNone)

\* What get_market_data gives its caller.
MarketDataResponse(quote) ==
  IF quote.kind = "raise" THEN Throw("Exception")
  ELSE IF LastPriceKey \in DOMAIN quote.body
    THEN LET price == PyFloat(quote.body[LastPriceKey])
         IN  IF price.ok THEN Return(price.val) ELSE Return(PyNone)
    ELSE Return(PyNone)

GetMarketData ==
  \E stock_code \in StockCodes, quote \in QuoteOutcomes :
    /\ Idle
    /\ last' = [op |-> "get_market_data", args |-> <<stock_code>>,
                ret |-> MarketDataResponse(quote),
                calls |-> <<Call("stock_bid_ask_em", <<stock_code>>)>>,
                resp |-> quote]
    /\ UNCHANGED <<username, password, is_logged_in, account_info,
                   auth_validate_key, api_validate_key>>

\* ------------------------------------------------------------ get_account_info
\* A slip in get_account_info: the summary of the last account.
AccountSummary_last(logged, accounts) ==
  IF ~logged THEN PyList(<<>>)
  ELSE IF accounts # <<>>
    THEN [t |-> "dict",
          username |-> accounts[Len(accounts)].username,
          account_balance |-> accounts[Len(accounts)].account_overview.Zjye,
          portfolio |-> accounts[Len(accounts)].portfolio]
    ELSE PyList(<<>>)

\* The summary of the first account, or the empty list.
AccountSummary(logged, accounts) ==
  IF ~logged THEN PyList(<<>>)
  ELSE IF accounts # <<>>
    THEN [t |-> "dict",
          username |-> accounts[1].username,
          account_balance |-> accounts[1].account_overview.Zjye,
          portfolio |-> accounts[1].portfolio]
    ELSE PyList(<<>>)

GetAccountInfo ==
  /\ Idle
  /\ last' = [op |-> "get_account_info", args |-> <<>>,
              ret |-> Return(AccountSummary(is_logged_in, account_info)),
              calls |-> <<>>]
  /\ UNCHANGED <<username, password, is_logged_in, account_info,
                 auth_validate_key, api_validate_key>>

\* TradingAgent.__init__
Init == /\ username \in UsernameArgs
        /\ password \in PasswordArgs
        /\ is_logged_in = FALSE
        /\ account_info = <<>>
        /\ auth_validate_key = NoneV
        /\ api_validate_key = NoneV
        /\ last = [op |-> "idle", after_logout |-> FALSE]

\* The caller takes the result of the call that returned.
TakeResult ==
  /\ ~Idle
  /\ last' = [op |-> "idle", after_logout |-> (last.op = "logout")]
  /\ UNCHANGED <<username, password, is_logged_in, account_info,
                 auth_validate_key, api_validate_key>>

Next == \/ Login
        \/ Logout
        \/ GetAccountInfo
        \/ PlaceOrder
        \/ QueryOrders
        \/ CancelOrder
        \/ GetMarketData
        \/ TakeResult

Spec == Init /\ [][Next]_vars

\* ------------------------------------------------------------ properties
SessionOps == {"login", "place_order", "query_orders", "cancel_order",
               "get_market_data"}
TradingOps == {"place_order", "query_orders", "cancel_order"}

\* The value a trading operation returns when it does not act.
Sentinel(op) ==
  CASE op = "place_order"  -> PyNone
    [] op = "query_orders" -> PyList(<<>>)
    [] op = "cancel_order" -> PyBool(FALSE)

LoginReturned(b) == last.op = "login" /\ last.ret = Return(PyBool(b))

\* C1: after a login call that returned False the agent is logged out,
\* whatever its state before the call.
C1_FailedLoginLeavesLoggedOut ==
  LoginReturned(FALSE) => ~is_logged_in

\* C2: after a login call that returned False because the auth client
\* reported failure, or because the snapshot fetch or the building of an
\* entry raised, the account list is empty.
C2_FailedLoginLeavesNoAccounts ==
  (LoginReturned(FALSE) /\ last.auth \in {"fail", "ok"}) => account_info = <<>>

\* C3: a login call for which neither the argument nor the stored default
\* gives a non-empty username, or neither gives a non-empty password, returns
\* False, calls no collaborator and leaves the session flag, the account
\* list, the stored credentials and the API client's token as they were.
C3_MissingCredentials ==
  [][(Idle /\ last'.op = "login"
        /\ \/ ~Truthy(last'.args[1]) /\ ~Truthy(username)
           \/ ~Truthy(last'.args[2]) /\ ~Truthy(password))
     => /\ last'.ret = Return(PyBool(FALSE))
        /\ last'.calls = <<>>
        /\ UNCHANGED <<is_logged_in, account_info, username, password,
                       api_validate_key>>]_vars

\* A login with a username but no password anywhere has returned False
\* without a collaborator call.
C3_Witness ==
  /\ last.op = "login"
  /\ Truthy(last.args[1])
  /\ ~Truthy(last.args[2]) /\ ~Truthy(password)
  /\ last.ret = Return(PyBool(FALSE))
  /\ last.calls = <<>>

\* C4: place_order, query_orders and cancel_order reach the API client only
\* while the agent is logged in; called while logged out they return their
\* sentinel (None, empty list, False) and call nothing.
C4_TradingOnlyWhileLoggedIn ==
  (last.op \in TradingOps /\ ~is_logged_in)
    => (last.calls = <<>> /\ last.ret = Return(Sentinel(last.op)))

\* A cancel_order made after the session ended (the token had been handed to
\* the API client) returned False without a revoke call.
C4_Witness ==
  /\ last.op = "cancel_order"
  /\ ~is_logged_in
  /\ Truthy(api_validate_key)
  /\ last.calls = <<>>
  /\ last.ret = Return(PyBool(FALSE))

\* C5: place_order submits only when the agent is logged in and the API
\* client holds a non-empty token; in every other state it returns None and
\* submits nothing.
C5_PlaceOrderPrecondition ==
  last.op = "place_order" =>
    /\ last.calls # <<>> => (is_logged_in /\ Truthy(api_validate_key))
    /\ ~(is_logged_in /\ Truthy(api_validate_key))
         => (last.ret = Return(PyNone) /\ last.calls = <<>>)

\* An order was submitted by a logged-in agent whose API client holds a token.
C5_Witness ==
  /\ last.op = "place_order"
  /\ last.calls # <<>>
  /\ last.calls[1].f = "submit_trade_v2"
  /\ is_logged_in /\ Truthy(api_validate_key)
  /\ last.ret.kind = "return" /\ last.ret.val.t = "PlaceOrderResult"

\* C6: logout leaves the agent logged out with an empty account list and
\* calls the auth client's logout; a logout that follows a logout changes
\* neither the session flag, the account list nor the stored credentials.
C6_LogoutIdempotent ==
  [][(Idle /\ last'.op = "logout")
     => /\ ~is_logged_in'
        /\ account_info' = <<>>
        /\ last'.calls = <<Call("auth.logout", <<>>)>>
        /\ last.after_logout
             => UNCHANGED <<is_logged_in, account_info, username, password>>]_vars

\* A logout that followed a logout has returned.
C6_Witness ==
  /\ last.op = "logout"
  /\ last.repeated
  /\ ~is_logged_in
  /\ account_info = <<>>

\* C7: after a login the auth client accepted, whose asset/position response
\* has no "Data" key, login has returned True, the agent is logged in and the
\* account list is empty.
C7_NoDataGivesEmptyList ==
  (last.op = "login" /\ last.auth = "ok" /\ last.asset.kind = "resp"
     /\ "Data" \notin DOMAIN last.asset.body)
  => (last.ret = Return(PyBool(TRUE)) /\ is_logged_in /\ account_info = <<>>)

\* C8: a login the auth client accepted, whose response has a "Data"
\* collection of n well-formed entries, returns True and appends exactly n
\* records to the account list, in the response's order, each with the
\* resolved username, the AccountOverview of its entry and a Portfolio holding
\* the entry's positions in their order (none when the entry has no
\* "positions").
C8_SnapshotAppended ==
  [][(Idle /\ last'.op = "login" /\ last'.auth = "ok"
        /\ last'.asset.kind = "resp"
        /\ "Data" \in DOMAIN last'.asset.body
        /\ \A i \in 1..Len(last'.asset.body["Data"]) :
             last'.asset.body["Data"][i] \in WellFormedAccounts)
     => LET data == last'.asset.body["Data"]
            old == Len(account_info)
        IN  /\ last'.ret = Return(PyBool(TRUE))
            /\ Len(account_info') = old + Len(data)
            /\ SubSeq(account_info', 1, old) = account_info
            /\ \A i \in 1..Len(data) :
                 LET info == account_info'[old + i]
                     raw == Get(data[i], "positions", <<>>)
                 IN  /\ info.username = PyOr(last'.args[1], username)
                     /\ info.account_overview = AccountOverview(data[i]).val
                     /\ Len(info.portfolio.positions) = Len(raw)
                     /\ \A j \in 1..Len(raw) :
                          info.portfolio.positions[j] = Position(raw[j]).val]_vars

\* A login recorded two accounts from one response, the first with its two
\* positions in the response's order, the second without positions.
C8_Witness ==
  /\ LoginReturned(TRUE)
  /\ last.asset.kind = "resp"
  /\ "Data" \in DOMAIN last.asset.body
  /\ last.asset.body["Data"] = <<AcctStr, AcctSparse>>
  /\ Len(account_info) = 2
  /\ account_info[1].username = "bob"
  /\ Len(account_info[1].portfolio.positions) = 2
  /\ account_info[1].portfolio.positions[1].Zqdm = StrV("600000")
  /\ account_info[1].portfolio.positions[2].Zqdm = StrV("000001")
  /\ account_info[2].portfolio.positions = <<>>

\* C9: no public operation lets an exception reach its caller.
C9_NoExceptionEscapes ==
  last.op \in SessionOps => last.ret.kind = "return"

\* C10: place_order on a response with a non-zero Status and a Message returns
\* a PlaceOrderResult with success False, that Message as error_message and
\* as the only element of order_ids.
C10_FailureResult ==
  (last.op = "place_order" /\ last.resp.kind = "resp"
     /\ "Status" \in DOMAIN last.resp.body /\ last.resp.body["Status"] # 0
     /\ "Message" \in DOMAIN last.resp.body)
  => last.ret = Return([t |-> "PlaceOrderResult",
                        order_ids |-> <<last.resp.body["Message"]>>,
                        success |-> FALSE,
                        error_message |-> last.resp.body["Message"]])

\* place_order has answered a response of status -1, "insufficient funds".
C10_Witness ==
  /\ last.op = "place_order"
  /\ last.resp = Resp([Status |-> -1, Message |-> "insufficient funds"])
  /\ last.ret.kind = "return"
  /\ last.ret.val.order_ids = <<"insufficient funds">>
  /\ ~last.ret.val.success
  /\ last.ret.val.error_message = "insufficient funds"

\* The date of a four-digit year as the eight digits YYYYMMDD.
YYYYMMDD(date) == ToString(date.y * 10000 + date.m * 100 + date.d)

\* C11: place_order on a response of Status 0 whose Data has n entries, each
\* with a Wtbh, returns a PlaceOrderResult with success True, no error
\* message and n order ids, the i-th being the date at which it was made as
\* YYYYMMDD, an underscore and the i-th entry's Wtbh.
C11_SuccessResult ==
  (last.op = "place_order" /\ last.resp.kind = "resp"
     /\ "Status" \in DOMAIN last.resp.body /\ last.resp.body["Status"] = 0
     /\ "Data" \in DOMAIN last.resp.body
     /\ \A i \in 1..Len(last.resp.body["Data"]) :
          "Wtbh" \in DOMAIN last.resp.body["Data"][i])
  => LET data == last.resp.body["Data"]
     IN  /\ last.ret.kind = "return"
         /\ last.ret.val.t = "PlaceOrderResult"
         /\ last.ret.val.success
         /\ last.ret.val.error_message = NoneV
         /\ Len(last.ret.val.order_ids) = Len(data)
         /\ \A i \in 1..Len(data) :
              last.ret.val.order_ids[i]
                = YYYYMMDD(last.clock[i]) \o "_" \o data[i]["Wtbh"]

\* place_order has answered a response of two entries, made on 2024-05-20,
\* with the two ids in the response's order.
C11_Witness ==
  /\ last.op = "place_order"
  /\ last.resp = Resp([Status |-> 0,
                       Data |-> <<[Wtbh |-> "130662"], [Wtbh |-> "77"]>>])
  /\ last.ret.kind = "return"
  /\ last.ret.val.success
  /\ last.ret.val.order_ids = <<"20240520_130662", "20240520_77">>

\* The field of a wire entry as text, the empty string when it is missing.
FieldOrEmpty(entry, key) == IF key \in DOMAIN entry THEN entry[key] ELSE ""

\* C12: query_orders, once the orders were fetched, returns one OrderRecord
\* per entry of the response's Data, in the response's order, whose order_id
\* is the entry's Wtrq, an underscore and its Wtbh, a missing field counting
\* as the empty string; a response without Data gives the empty list.
C12_QueryOrdersRecords ==
  (last.op = "query_orders" /\ last.resp.kind = "resp")
  => /\ last.ret.kind = "return"
     /\ last.ret.val.t = "list"
     /\ IF "Data" \in DOMAIN last.resp.body
          THEN LET data == last.resp.body["Data"]
               IN  /\ Len(last.ret.val.items) = Len(data)
                   /\ \A i \in 1..Len(data) :
                        /\ last.ret.val.items[i].order_id
                             = FieldOrEmpty(data[i], "Wtrq") \o "_"
                                 \o FieldOrEmpty(data[i], "Wtbh")
                        /\ last.ret.val.items[i].Zqdm
                             = FieldOrEmpty(data[i], "Zqdm")
          ELSE last.ret.val.items = <<>>

\* query_orders has answered a response of a full entry followed by one
\* without a Wtrq.
C12_Witness ==
  /\ last.op = "query_orders"
  /\ last.resp = Resp([Status |-> 0, Data |-> <<OrdFull, OrdSparse>>])
  /\ last.ret.kind = "return"
  /\ Len(last.ret.val.items) = 2
  /\ last.ret.val.items[1].order_id = "20240520_77"
  /\ last.ret.val.items[2].order_id = "_78"
  /\ last.ret.val.items[2].Zqdm = "000001"

C14_AccountSummary ==
  [][(Idle /\ last'.op = "get_account_info")
       => /\ last'.ret.kind = "return"
          /\ ~is_logged_in => last'.ret.val = PyList(<<>>)
          /\ (is_logged_in /\ account_info = <<>>)
               => last'.ret.val = PyList(<<>>)
          /\ (is_logged_in /\ account_info # <<>>)
               => /\ last'.ret.val.t = "dict"
                  /\ last'.ret.val.username = Head(account_info).username
                  /\ last'.ret.val.account_balance
                       = Head(account_info).account_overview.Zjye
                  /\ last'.ret.val.portfolio = Head(account_info).portfolio]_vars

\* get_account_info has returned the empty list while the account list held
\* an entry and is_logged_in was False.
C14_Witness ==
  /\ last.op = "get_account_info"
  /\ ~is_logged_in
  /\ account_info # <<>>
  /\ last.ret = Return(PyList(<<>>))

\* Last-price fields that are numbers, with the float each stands for, in
\* hundredths.
WellFormedPrices ==
  {<<StrV("12.340"), 1234>>, <<FloatV(150), 150>>, <<IntV(2), 200>>}

\* C15: get_market_data answers in every session state; on a quote response
\* whose last-price field is a number it returns that number as a float; on
\* a response without the field, or whose field is not a number, it returns
\* None: no zero, no exception.
C15_MarketData ==
  (last.op = "get_market_data" /\ last.resp.kind = "resp")
  => /\ last.ret.kind = "return"
     /\ LastPriceKey \notin DOMAIN last.resp.body => last.ret.val = PyNone
     /\ LastPriceKey \in DOMAIN last.resp.body
          => IF \E w \in WellFormedPrices : w[1] = last.resp.body[LastPriceKey]
               THEN \E w \in WellFormedPrices :
                      /\ w[1] = last.resp.body[LastPriceKey]
                      /\ last.ret.val = FloatV(w[2])
               ELSE last.ret.val = PyNone

\* A logged-out agent's get_market_data has returned None on a last price of
\* "-".
C15_Witness ==
  /\ last.op = "get_market_data"
  /\ ~is_logged_in
  /\ auth_validate_key = NoneV
  /\ last.resp = Resp([latest |-> StrV("-")])
  /\ last.ret = Return(PyNone)

\* C16: every numeric field of every AccountOverview in the account list is a
\* float, whatever the wire entry held (a numeric string, an empty string, no
\* key at all, a raw integer), and Money_type is a string.
C16_NumericFieldsAreFloats ==
  \A i \in 1..Len(account_info) :
    /\ \A k \in NumericFields : account_info[i].account_overview[k].t = "float"
    /\ account_info[i].account_overview.Money_type.t = "str"

\* The credential a login call works with: its argument, or the stored
\* default when the argument is None or empty.
Resolved(arg, stored) == IF arg \in {NoneV, ""} THEN stored ELSE arg

\* C17: a login whose resolved username and password are both non-empty
\* leaves them stored as the agent's defaults whether it returns True, False
\* or raises, and hands the same pair to the auth client; so a login without
\* arguments works with the pair of the attempt before it. logout leaves the
\* stored credentials as they are.
C17_CredentialsStored ==
  [][/\ (Idle /\ last'.op = "login"
           /\ Resolved(last'.args[1], username) \notin {NoneV, ""}
           /\ Resolved(last'.args[2], password) \notin {NoneV, ""})
          => /\ username' = Resolved(last'.args[1], username)
             /\ password' = Resolved(last'.args[2], password)
             /\ Len(last'.calls) >= 1
             /\ last'.calls[1] = Call("auth.login", <<username', password'>>)
     /\ (Idle /\ last'.op = "logout")
          => UNCHANGED <<username, password>>]_vars

\* login("bob", "pw") has returned False on the auth client's refusal, and
\* the agent holds bob's credentials.
C17_Witness ==
  /\ last.op = "login"
  /\ last.args = <<"bob", "pw">>
  /\ last.auth = "fail"
  /\ last.ret = Return(PyBool(FALSE))
  /\ username = "bob"
  /\ password = "pw"

\* The entries of an asset/position response: its Data, or none.
DataEntries(asset) ==
  IF asset.kind = "resp" /\ "Data" \in DOMAIN asset.body
    THEN asset.body["Data"] ELSE <<>>

\* C18: when a login has returned True, the account list is the snapshot of
\* that login: one AccountInfo per entry of its response's Data, each under
\* that login's username, with nothing left of an earlier login.
C18_ListIsLatestSnapshot ==
  LoginReturned(TRUE)
  => /\ Len(account_info) = Len(DataEntries(last.asset))
     /\ \A i \in 1..Len(account_info) : account_info[i].username = username

\* The operations that read the session without being login or logout.
ReadingOps ==
  {"get_account_info", "place_order", "query_orders", "cancel_order",
   "get_market_data"}

\* C19: get_account_info, place_order, query_orders, cancel_order and
\* get_market_data leave is_logged_in, the account list, the stored
\* credentials and the API client's validation token as they were, whether
\* they do their work or return their sentinel.
C19_OnlyLoginAndLogoutMutate ==
  [][(Idle /\ last'.op \in ReadingOps)
       => UNCHANGED <<is_logged_in, account_info, username, password,
                      api_validate_key>>]_vars

\* place_order has placed an order for a logged-in agent that still holds its
\* account, its credentials and its token.
C19_Witness ==
  /\ last.op = "place_order"
  /\ last.ret.kind = "return"
  /\ last.ret.val.t = "PlaceOrderResult"
  /\ last.ret.val.success
  /\ is_logged_in
  /\ account_info # <<>>
  /\ username = "alice"
  /\ password = "pw"
  /\ api_validate_key = "k1"

\* Both stored credentials are non-empty: what a login that passed the
\* credential check leaves behind.
CredentialsOnFile == username \notin {NoneV, ""} /\ password \notin {NoneV, ""}

\* C20: once both stored credentials are non-empty, as they are after any
\* login that passed the credential check, they stay so through every call,
\* logout included, and every later login passes the check whatever its
\* arguments; so a login that fails the check starts from an agent that is
\* logged out, has an empty account list and whose API client was never
\* handed a token.
C20_CredentialCheckFailsOnlyFresh ==
  [][/\ CredentialsOnFile => CredentialsOnFile'
     /\ (Idle /\ last'.op = "login" /\ CredentialsOnFile)
          => /\ Len(last'.calls) >= 1
             /\ last'.calls[1].f = "auth.login"
     /\ (Idle /\ last'.op = "login" /\ last'.calls = <<>>)
          => /\ ~is_logged_in
             /\ account_info = <<>>
             /\ api_validate_key = NoneV
             /\ ~CredentialsOnFile]_vars

\* A login with empty arguments, made by a logged-out agent whose API client
\* holds the token of an earlier login, has passed the credential check on
\* the stored credentials and been refused by the auth client.
C20_Witness ==
  /\ last.op = "login"
  /\ last.args = <<"", NoneV>>
  /\ last.auth = "fail"
  /\ last.calls = <<Call("auth.login", <<"alice", "pw">>)>>
  /\ ~is_logged_in
  /\ account_info = <<>>
  /\ api_validate_key = "k1"
====
